---- MODULE Spec2Model ----
(***************************************************************************)
(* A model of lazyllm/module/onlineChatModule/openaiModule.py: the         *)
(* OpenAIModule fine-tuning interface (dataset conversion, training file   *)
(* upload, job creation, job query, deployment stub).                      *)
(*                                                                         *)
(* Text is a sequence of symbols.  A symbol is either one of the           *)
(* characters JSON gives a meaning to (quote, backslash, newline, space,   *)
(* braces, brackets, colon, comma, the escape letter n) or a word: a run   *)
(* of ordinary characters that the serializer, the parser and the line     *)
(* reader all treat as a unit.                                             *)
(***************************************************************************)
EXTENDS Integers, Sequences, FiniteSets, TLC

DQ == "\""
BS == "\\"
NL == "\n"
SP == " "

Whitespace == {SP, NL}

\* ------------------------------------------------------------------------
\* JSON values: [t |-> tag, v |-> payload].
\*   "str": v is the sequence of symbols of the string
\*   "num": v is the one-symbol sequence of the literal
\*   "null": v is empty
\*   "arr": v is the sequence of element values
\*   "obj": v is the sequence of <<key, value>> pairs, in insertion order
\*          (a Python dict), key a sequence of symbols
\* ------------------------------------------------------------------------
JStr(s) == [t |-> "str", v |-> s]
JNum(d) == [t |-> "num", v |-> <<d>>]
JNull == [t |-> "null", v |-> <<>>]
JArr(xs) == [t |-> "arr", v |-> xs]
JObj(kvs) == [t |-> "obj", v |-> kvs]

Digits == {"0", "1"}

\* dict.__setitem__: a repeated key keeps its first position and takes the
\* last value.
DictSet(kvs, k, x) ==
  IF \E i \in 1..Len(kvs) : kvs[i][1] = k
  THEN [i \in 1..Len(kvs) |-> IF kvs[i][1] = k THEN <<k, x>> ELSE kvs[i]]
  ELSE Append(kvs, <<k, x>>)

DictHas(kvs, k) == \E i \in 1..Len(kvs) : kvs[i][1] = k

\* dict.get(key, default)
DictGet(kvs, k, default) ==
  IF DictHas(kvs, k)
  THEN kvs[CHOOSE i \in 1..Len(kvs) : kvs[i][1] = k][2]
  ELSE default

\* ------------------------------------------------------------------------
\* json.loads on one line of text.  A result is
\*   [ok |-> TRUE,  val |-> value, pos |-> index after the value]   or
\*   [ok |-> FALSE, val |-> JNull, pos |-> index the error is reported at].
\* ------------------------------------------------------------------------
POk(x, p) == [ok |-> TRUE, val |-> x, pos |-> p]
PErr(p) == [ok |-> FALSE, val |-> JNull, pos |-> p]

RECURSIVE SkipWs(_, _)
SkipWs(s, i) ==
  IF i <= Len(s) /\ s[i] \in Whitespace THEN SkipWs(s, i + 1) ELSE i

\* The body of a string literal; i is the index after the opening quote,
\* begin the index of the opening quote, acc the symbols decoded so far.
RECURSIVE ScanString(_, _, _, _)
ScanString(s, i, begin, acc) ==
  IF i > Len(s) THEN PErr(begin)                 \* unterminated string
  ELSE IF s[i] = DQ THEN POk(JStr(acc), i + 1)
  ELSE IF s[i] = NL THEN PErr(i)                 \* invalid control character
  ELSE IF s[i] = BS THEN
    IF i + 1 > Len(s) THEN PErr(begin)
    ELSE IF s[i + 1] = DQ THEN ScanString(s, i + 2, begin, Append(acc, DQ))
    ELSE IF s[i + 1] = BS THEN ScanString(s, i + 2, begin, Append(acc, BS))
    ELSE IF s[i + 1] = "n" THEN ScanString(s, i + 2, begin, Append(acc, NL))
    ELSE PErr(i)                                 \* invalid \escape
  ELSE ScanString(s, i + 1, begin, Append(acc, s[i]))

RECURSIVE ParseValue(_, _)
RECURSIVE ParseMembers(_, _, _)
RECURSIVE ParseElements(_, _, _)

\* i is at the first symbol of a value.
ParseValue(s, i) ==
  IF i > Len(s) THEN PErr(i)
  ELSE IF s[i] = DQ THEN ScanString(s, i + 1, i, <<>>)
  ELSE IF s[i] = "{" THEN
    LET j == SkipWs(s, i + 1) IN
    IF j <= Len(s) /\ s[j] = "}" THEN POk(JObj(<<>>), j + 1)
    ELSE ParseMembers(s, j, <<>>)
  ELSE IF s[i] = "[" THEN
    LET j == SkipWs(s, i + 1) IN
    IF j <= Len(s) /\ s[j] = "]" THEN POk(JArr(<<>>), j + 1)
    ELSE ParseElements(s, j, <<>>)
  ELSE IF s[i] = "null" THEN POk(JNull, i + 1)
  ELSE IF s[i] \in Digits THEN POk(JNum(s[i]), i + 1)
  ELSE PErr(i)                                   \* expecting value

\* i is where a property name must start; kvs the pairs read so far.
ParseMembers(s, i, kvs) ==
  IF i > Len(s) \/ s[i] # DQ THEN PErr(i)        \* expecting property name
  ELSE
    LET k == ScanString(s, i + 1, i, <<>>) IN
    IF ~k.ok THEN k
    ELSE
      LET c == SkipWs(s, k.pos) IN
      IF c > Len(s) \/ s[c] # ":" THEN PErr(c)   \* expecting ':' delimiter
      ELSE
        LET x == ParseValue(s, SkipWs(s, c + 1)) IN
        IF ~x.ok THEN x
        ELSE
          LET e == SkipWs(s, x.pos)
              got == DictSet(kvs, k.val.v, x.val)
          IN
          IF e <= Len(s) /\ s[e] = "}" THEN POk(JObj(got), e + 1)
          ELSE IF e <= Len(s) /\ s[e] = ","
            THEN ParseMembers(s, SkipWs(s, e + 1), got)
          ELSE PErr(e)                           \* expecting ',' delimiter

\* i is where an element must start; xs the elements read so far.
ParseElements(s, i, xs) ==
  LET x == ParseValue(s, i) IN
  IF ~x.ok THEN x
  ELSE
    LET e == SkipWs(s, x.pos)
        got == Append(xs, x.val)
    IN
    IF e <= Len(s) /\ s[e] = "]" THEN POk(JArr(got), e + 1)
    ELSE IF e <= Len(s) /\ s[e] = ","
      THEN ParseElements(s, SkipWs(s, e + 1), got)
    ELSE PErr(e)                                 \* expecting ',' delimiter

\* json.loads(line): one value, then nothing but whitespace.
Loads(s) ==
  LET x == ParseValue(s, SkipWs(s, 1)) IN
  IF ~x.ok THEN x
  ELSE
    LET e == SkipWs(s, x.pos) IN
    IF e <= Len(s) THEN PErr(e) ELSE x           \* extra data

\* JSONDecodeError.lineno: one more than the newlines of the parsed string
\* that come before the error position.
ErrLineno(s, p) == 1 + Cardinality({i \in 1..(p - 1) : i <= Len(s) /\ s[i] = NL})

\* ------------------------------------------------------------------------
\* json.dumps(value, ensure_ascii=False), default separators.
\* ------------------------------------------------------------------------
RECURSIVE Flatten(_)
Flatten(ss) == IF ss = <<>> THEN <<>> ELSE Head(ss) \o Flatten(Tail(ss))

\* sep.join(parts)
RECURSIVE Join(_, _)
Join(parts, sep) ==
  IF parts = <<>> THEN <<>>
  ELSE IF Len(parts) = 1 THEN parts[1]
  ELSE parts[1] \o sep \o Join(Tail(parts), sep)

\* json.dumps that leaves a newline inside a string as it is.
EscapeSymKeepsNewline(c) ==
  IF c = DQ THEN <<BS, DQ>>
  ELSE IF c = BS THEN <<BS, BS>>
  ELSE <<c>>

EscapeSym(c) ==
  IF c = DQ THEN <<BS, DQ>>
  ELSE IF c = BS THEN <<BS, BS>>
  ELSE IF c = NL THEN <<BS, "n">>
  ELSE <<c>>

DumpsStr(s) == <<DQ>> \o Flatten([i \in 1..Len(s) |-> EscapeSym(s[i])]) \o <<DQ>>

RECURSIVE Dumps(_)
Dumps(x) ==
  IF x.t = "str" THEN DumpsStr(x.v)
  ELSE IF x.t = "num" THEN x.v
  ELSE IF x.t = "null" THEN <<"null">>
  ELSE IF x.t = "arr" THEN
    <<"[">> \o Join([i \in 1..Len(x.v) |-> Dumps(x.v[i])], <<",", SP>>) \o <<"]">>
  ELSE
    <<"{">>
    \o Join([i \in 1..Len(x.v) |->
               DumpsStr(x.v[i][1]) \o <<":", SP>> \o Dumps(x.v[i][2])],
            <<",", SP>>)
    \o <<"}">>

\* ------------------------------------------------------------------------
\* Exceptions and returns.  A call ends in exactly one outcome record.
\* ------------------------------------------------------------------------
Return(x) == [kind |-> "return", value |-> x, lineno |-> 0]
Raise(k, msg) == [kind |-> k, value |-> msg, lineno |-> 0]
RaiseDecode(n) == [kind |-> "JSONDecodeError", value |-> <<>>, lineno |-> n]

\* ------------------------------------------------------------------------
\* OpenAIModule._convert_file_format
\* ------------------------------------------------------------------------
K_messages == <<"messages">>
K_role == <<"role">>
K_content == <<"content">>

\* A role list that lets "tool" through.
RecognizedRolesWithTool == {<<"system">>, <<"user">>, <<"assistant">>, <<"tool">>}

RecognizedRoles == {<<"system">>, <<"user">>, <<"assistant">>}

\* `for line in fr`: the lines of the text, each with its line ending; a
\* last line without a line ending is a line too.
SplitLines(text) ==
  LET ends == {i \in 1..Len(text) : text[i] = NL}
      starts == {i \in 1..Len(text) : i = 1 \/ (i - 1) \in ends}
      EndOf(a) == IF \E e \in ends : e >= a
                  THEN CHOOSE e \in ends : e >= a /\ \A f \in ends : f >= a => e <= f
                  ELSE Len(text)
      Nth(k) == CHOOSE a \in starts : Cardinality({b \in starts : b < a}) = k - 1
  IN [k \in 1..Cardinality(starts) |-> SubSeq(text, Nth(k), EndOf(Nth(k)))]

ReadLines(text) == SplitLines(text)

\* What `for message in messages` walks: the elements of a list, the
\* characters of a string, the keys of a dict; None and numbers are not
\* iterable.
Iterable(x) == x.t \in {"arr", "str", "obj"}

Iterate(x) ==
  IF x.t = "arr" THEN x.v
  ELSE IF x.t = "str" THEN [i \in 1..Len(x.v) |-> JStr(<<x.v[i]>>)]
  ELSE [i \in 1..Len(x.v) |-> JStr(x.v[i][1])]

\* Lines 41-45: the loop over the messages of one record; acc is
\* lineEx["messages"].  Only a dict has .get.
RECURSIVE FilterMessages(_, _)
FilterMessages(messages, acc) ==
  IF messages = <<>> THEN [err |-> "", val |-> acc]
  ELSE
    LET message == Head(messages) IN
    IF message.t # "obj" THEN [err |-> "AttributeError", val |-> <<>>]
    ELSE
      LET role == DictGet(message.v, K_role, JStr(<<>>))
          content == DictGet(message.v, K_content, JStr(<<>>))
      IN
      IF role.t = "str" /\ role.v \in RecognizedRoles
      THEN FilterMessages(Tail(messages),
             Append(acc, JObj(<<<<K_role, role>>, <<K_content, content>>>>)))
      ELSE FilterMessages(Tail(messages), acc)

\* Lines 39-46: one record of the dataset to its output line.
ConvertEx(ex) ==
  IF ex.t # "obj" THEN [err |-> "AttributeError", val |-> <<>>]
  ELSE
    LET messages == DictGet(ex.v, K_messages, JArr(<<>>)) IN
    IF ~Iterable(messages) THEN [err |-> "TypeError", val |-> <<>>]
    ELSE
      LET kept == FilterMessages(Iterate(messages), <<>>) IN
      IF kept.err # "" THEN kept
      ELSE [err |-> "", val |-> Dumps(JObj(<<<<K_messages, JArr(kept.val)>>>>))]

\* The whole function: lines 34-35 parse every line (the first line that
\* does not parse raises), lines 37-46 convert the records in order (the
\* first record that cannot be walked raises), line 48 joins the output.
ConvertFileFormat(text) ==
  LET lines == ReadLines(text)
      parsed == [i \in 1..Len(lines) |-> Loads(lines[i])]
      badLines == {i \in 1..Len(lines) : ~parsed[i].ok}
  IN
  IF badLines # {} THEN
    LET b == CHOOSE i \in badLines : \A j \in badLines : i <= j IN
    RaiseDecode(ErrLineno(lines[b], parsed[b].pos))
  ELSE
    LET json_strs == [i \in 1..Len(lines) |-> ConvertEx(parsed[i].val)]
        badEx == {i \in 1..Len(lines) : json_strs[i].err # ""}
    IN
    IF badEx # {} THEN
      LET b == CHOOSE i \in badEx : \A j \in badEx : i <= j IN
      Raise(json_strs[b].err, <<>>)
    ELSE Return(Join([i \in 1..Len(lines) |-> json_strs[i].val], <<NL>>))

\* ------------------------------------------------------------------------
\* Training files.  Datasets are written the way the docstring of
\* _upload_train_file shows them (lines 54-90), without optional spaces.
\* ------------------------------------------------------------------------
MaxMsgs == 2
MaxLines == 2

CompactSym(c) ==
  IF c = DQ THEN <<BS, DQ>>
  ELSE IF c = BS THEN <<BS, BS>>
  ELSE IF c = NL THEN <<BS, "n">>
  ELSE <<c>>

CompactStr(s) == <<DQ>> \o Flatten([i \in 1..Len(s) |-> CompactSym(s[i])]) \o <<DQ>>

RECURSIVE Compact(_)
Compact(x) ==
  IF x.t = "str" THEN CompactStr(x.v)
  ELSE IF x.t = "num" THEN x.v
  ELSE IF x.t = "null" THEN <<"null">>
  ELSE IF x.t = "arr" THEN
    <<"[">> \o Join([i \in 1..Len(x.v) |-> Compact(x.v[i])], <<",">>) \o <<"]">>
  ELSE
    <<"{">>
    \o Join([i \in 1..Len(x.v) |->
               CompactStr(x.v[i][1]) \o <<":">> \o Compact(x.v[i][2])],
            <<",">>)
    \o <<"}">>

Msg(role, content) ==
  JObj(<<<<K_role, JStr(<<role>>)>>, <<K_content, JStr(content)>>>>)

Rec(msgs) == JObj(<<<<K_messages, JArr(msgs)>>>>)

\* The messages a record is made of: the three recognized roles (one with
\* a content that needs escaping, one weighted), an unrecognized role, a
\* message without a role and one without a content.
SampleMessages ==
  { Msg("system", <<"S">>),
    Msg("user", <<"Hi", DQ, BS, "n", NL>>),
    Msg("tool", <<"X">>),
    JObj(<<<<K_role, JStr(<<"assistant">>)>>,
           <<K_content, JStr(<<"A">>)>>,
           <<<<"weight">>, JNum("1")>>>>),
    JObj(<<<<K_content, JStr(<<"C">>)>>>>),
    JObj(<<<<K_role, JStr(<<"user">>)>>>>) }

SampleRecords ==
  UNION {{Rec(m) : m \in [1..n -> SampleMessages]} : n \in 0..MaxMsgs}

\* Lines of a file: the two records of the end-to-end scenario, a
\* completion record, and lines that are not JSON (a word, a truncated
\* object, nothing at all) or not a record of messages.
SampleLines ==
  { Compact(Rec(<<Msg("system", <<"S">>), Msg("user", <<"Hi">>),
                  Msg("tool", <<"X">>), Msg("assistant", <<"Hello">>)>>)),
    Compact(Rec(<<Msg("user", <<"Q">>), Msg("assistant", <<"A">>)>>)),
    Compact(JObj(<<<<<<"prompt">>, JStr(<<"P">>)>>,
                   <<<<"completion">>, JStr(<<"C">>)>>>>)),
    <<"oops">>,
    <<"{", DQ, "messages", DQ, ":">>,
    <<>>,
    Compact(JObj(<<<<K_messages, JNull>>>>)) }

\* Records that are JSON but not a list of message objects.
OddLines ==
  { Compact(JArr(<<JNum("1")>>)),
    Compact(JObj(<<<<K_messages, JArr(<<JNum("1")>>)>>>>)),
    Compact(JObj(<<<<K_messages, JStr(<<"ab">>)>>>>)),
    Compact(JObj(<<<<K_messages, JStr(<<>>)>>>>)),
    <<"{", DQ, "a", BS, "x", DQ, ":", "1", "}">>,
    <<"{", DQ, "a", DQ, ":", "1", "}", "1">>,
    <<"{", DQ, "a", DQ, ":", "1", ",", "}">> }

\* A file is its lines, each ended by a newline, the last one possibly not.
FileOf(ls, endNL) == Join(ls, <<NL>>) \o (IF endNL /\ ls # <<>> THEN <<NL>> ELSE <<>>)

TrainFiles ==
  UNION {{FileOf(ls, e) : ls \in [1..n -> SampleLines], e \in BOOLEAN} : n \in 0..MaxLines}
  \cup {FileOf(<<Compact(r)>>, e) : r \in SampleRecords, e \in BOOLEAN}
  \cup {FileOf(<<l>>, TRUE) : l \in OddLines}

NoOutcome == [kind |-> "none", value |-> <<>>, lineno |-> 0]

\* ------------------------------------------------------------------------
\* HTTP responses, as the code reads them: r.status_code and the body,
\* which r.iter_content hands out and r.json() parses.
\* ------------------------------------------------------------------------
NoResponse == [status_code |-> 0, content |-> <<>>]

K_id == <<"id">>
K_status == <<"status">>
K_fine_tuned_model == <<"fine_tuned_model">>

\* bytes.decode('utf-8') of one chunk.  A body is a sequence of symbols:
\* words of ASCII characters, which decode to themselves, and single bytes
\* above 0x7F.  A lead byte followed by its continuation byte decodes to
\* one character; a lead byte without one, a continuation byte without a
\* lead byte, and a byte that UTF-8 never uses make the decoding fail.
LeadBytes == {"xC3"}
ContinuationBytes == {"xA9"}
NeverBytes == {"xFF"}

TwoByteChar(b1, b2) == IF b1 = "xC3" /\ b2 = "xA9" THEN "e-acute" ELSE "other"

RECURSIVE Utf8Decode(_, _)
Utf8Decode(bs, acc) ==
  IF bs = <<>> THEN [ok |-> TRUE, val |-> acc]
  ELSE IF Head(bs) \in NeverBytes \cup ContinuationBytes
    THEN [ok |-> FALSE, val |-> <<>>]
  ELSE IF Head(bs) \in LeadBytes THEN
    IF Len(bs) < 2 \/ bs[2] \notin ContinuationBytes
    THEN [ok |-> FALSE, val |-> <<>>]
    ELSE Utf8Decode(SubSeq(bs, 3, Len(bs)), Append(acc, TwoByteChar(bs[1], bs[2])))
  ELSE Utf8Decode(Tail(bs), Append(acc, Head(bs)))

\* r.iter_content(None) of a response read without stream=True: the body
\* already read, as one chunk; no chunk for an empty body.
IterContent(content) == IF content = <<>> THEN <<>> ELSE <<content>>

\* Lines 108, 132, 148: the exception raised for a status other than 200.
RequestFailure(r) ==
  LET chunks == IterContent(r.content)
      decoded == [i \in 1..Len(chunks) |-> Utf8Decode(chunks[i], <<>>)]
  IN
  IF \E i \in 1..Len(chunks) : ~decoded[i].ok
  THEN Raise("UnicodeDecodeError", <<>>)
  ELSE Raise("RequestException", Join([i \in 1..Len(chunks) |-> decoded[i].val], <<NL>>))

\* r.json(): the body parsed as JSON.
RJson(r) == Loads(r.content)

\* r.json()[key] on a dict
HasKey(j, k) == DictHas(j.v, k)
Subscript(j, k) == DictGet(j.v, k, JNull)

UPPER == <<"A", "B", "C", "D", "E", "F", "G", "H", "I", "J", "K", "L", "M",
           "N", "O", "P", "Q", "R", "S", "T", "U", "V", "W", "X", "Y", "Z">>
LOWER == <<"a", "b", "c", "d", "e", "f", "g", "h", "i", "j", "k", "l", "m",
           "n", "o", "p", "q", "r", "s", "t", "u", "v", "w", "x", "y", "z">>

\* str.lower()
LowerChar(c) ==
  IF \E i \in 1..Len(UPPER) : UPPER[i] = c
  THEN LOWER[CHOOSE i \in 1..Len(UPPER) : UPPER[i] = c]
  ELSE c

Lower(s) == [i \in 1..Len(s) |-> LowerChar(s[i])]

SUCCEEDED == <<"s", "u", "c", "c", "e", "e", "d", "e", "d">>

\* Lines 107-112 without the close: what _upload_train_file ends in.
UploadOutcome(r) ==
  LET j == RJson(r) IN
  IF r.status_code # 200 THEN RequestFailure(r)
  ELSE IF ~j.ok THEN Raise("JSONDecodeError", <<>>)
  ELSE IF j.val.t # "obj" THEN Raise("TypeError", <<>>)
  ELSE IF ~HasKey(j.val, K_id) THEN Raise("KeyError", K_id)
  ELSE Return(Subscript(j.val, K_id))

\* Lines 134-135 reading the fields with .get instead of a subscript.
CreateJobOutcomeWithGet(r) ==
  LET j == RJson(r) IN
  IF r.status_code # 200 THEN RequestFailure(r)
  ELSE IF ~j.ok THEN Raise("JSONDecodeError", <<>>)
  ELSE IF j.val.t # "obj" THEN Raise("TypeError", <<>>)
  ELSE Return(<<Subscript(j.val, K_id), Subscript(j.val, K_status)>>)

\* Lines 130-136.
CreateJobOutcome(r) ==
  LET j == RJson(r) IN
  IF r.status_code # 200 THEN RequestFailure(r)
  ELSE IF ~j.ok THEN Raise("JSONDecodeError", <<>>)
  ELSE IF j.val.t # "obj" THEN Raise("TypeError", <<>>)
  ELSE IF ~HasKey(j.val, K_id) THEN Raise("KeyError", K_id)
  ELSE IF ~HasKey(j.val, K_status) THEN Raise("KeyError", K_status)
  ELSE Return(<<Subscript(j.val, K_id), Subscript(j.val, K_status)>>)

\* Line 152 comparing the status without lower().
QueryJobOutcomeCaseSensitive(r) ==
  LET j == RJson(r)
      status == Subscript(j.val, K_status)
  IN
  IF r.status_code # 200 THEN RequestFailure(r)
  ELSE IF ~j.ok THEN Raise("JSONDecodeError", <<>>)
  ELSE IF j.val.t # "obj" THEN Raise("TypeError", <<>>)
  ELSE IF ~HasKey(j.val, K_status) THEN Raise("KeyError", K_status)
  ELSE IF status.t # "str" THEN Raise("AttributeError", <<>>)
  ELSE IF status.v = SUCCEEDED THEN
    IF ~HasKey(j.val, K_fine_tuned_model)
    THEN Raise("KeyError", K_fine_tuned_model)
    ELSE Return(<<Subscript(j.val, K_fine_tuned_model), status>>)
  ELSE Return(<<JNull, status>>)

\* Lines 146-154.
QueryJobOutcome(r) ==
  LET j == RJson(r)
      status == Subscript(j.val, K_status)
  IN
  IF r.status_code # 200 THEN RequestFailure(r)
  ELSE IF ~j.ok THEN Raise("JSONDecodeError", <<>>)
  ELSE IF j.val.t # "obj" THEN Raise("TypeError", <<>>)
  ELSE IF ~HasKey(j.val, K_status) THEN Raise("KeyError", K_status)
  ELSE IF status.t # "str" THEN Raise("AttributeError", <<>>)
  ELSE IF Lower(status.v) = SUCCEEDED THEN
    IF ~HasKey(j.val, K_fine_tuned_model)
    THEN Raise("KeyError", K_fine_tuned_model)
    ELSE Return(<<Subscript(j.val, K_fine_tuned_model), status>>)
  ELSE Return(<<JNull, status>>)

\* Lines 123-128: the JSON body of the job request.
JobRequestData(train_model, train_file_id, kw) ==
  LET data == <<<<<<"model">>, JStr(<<train_model>>)>>,
                <<<<"training_file">>, JStr(<<train_file_id>>)>>>>
      Upd[n \in 0..Len(kw)] ==
        IF n = 0 THEN data ELSE DictSet(Upd[n - 1], kw[n][1], kw[n][2])
  IN JObj(Upd[Len(kw)])

\* A deployment that still has to start.
CreateDeploymentOutcomePending(name) == Return(<<name, "PENDING">>)

\* Line 160 and line 166.
CreateDeploymentOutcome(name) == Return(<<name, "RUNNING">>)
QueryDeploymentOutcome(deployment_id) == Return("RUNNING")

\* ------------------------------------------------------------------------
\* The environment: training files on disk, the service's responses, the
\* arguments of the calls.
\* ------------------------------------------------------------------------
MaxHandles == 2

Callers == {"A", "B"}

ModelNames == {"gpt-3.5-turbo", "gpt-4-0613"}

\* Paths are sequences of components.
UploadPaths == {<<"data", "a.jsonl">>, <<"data", "b.jsonl">>, <<"data", "bad.jsonl">>}

\* os.path.basename
Basename(path) == path[Len(path)]

FileText(path) ==
  IF Basename(path) = "a.jsonl"
    THEN FileOf(<<Compact(Rec(<<Msg("user", <<"Q">>), Msg("tool", <<"X">>),
                                Msg("assistant", <<"A">>)>>))>>, TRUE)
  ELSE IF Basename(path) = "b.jsonl"
    THEN FileOf(<<Compact(Rec(<<Msg("system", <<"S">>)>>))>>, TRUE)
  ELSE FileOf(<<<<"oops">>>>, TRUE)

\* What _convert_file_format makes of each training file.
Converted == [f \in UploadPaths |-> ConvertFileFormat(FileText(f))]

StatusCodes == {200, 201, 299, 300, 404, 500}

\* Bodies of failures: empty, plain text, text over two lines, UTF-8 text
\* with a two-byte character, a body that is not UTF-8.
ErrorBodies ==
  { <<>>,
    <<"bad", SP, "request">>,
    <<"bad", NL, "request">>,
    <<"caf", "xC3", "xA9">>,
    <<"caf", "xFF">> }

FILE_ID == JStr(<<"file-123">>)
JOB_ID == JStr(<<"job-1">>)
FT_MODEL == JStr(<<"ft:model-1">>)

QUEUED == <<"q", "u", "e", "u", "e", "d">>
RUNNING_STATUS == <<"r", "u", "n", "n", "i", "n", "g">>
FAILED == <<"f", "a", "i", "l", "e", "d">>
CANCELLED == <<"c", "a", "n", "c", "e", "l", "l", "e", "d">>

\* An object of the given optional fields: a field is {} (absent) or {value}.
ObjOf(fields) ==
  LET present == SelectSeq(fields, LAMBDA f : f[2] # {}) IN
  JObj([i \in 1..Len(present) |-> <<present[i][1], CHOOSE x \in present[i][2] : TRUE>>])

UploadBodies ==
  {Compact(ObjOf(<<<<K_id, i>>>>)) : i \in {{}, {FILE_ID}}}
  \cup {Compact(JArr(<<FILE_ID>>))} \cup ErrorBodies

CreateJobBodies ==
  {Compact(ObjOf(<<<<K_id, i>>, <<K_status, st>>>>)) :
     i \in {{}, {JNull}, {JOB_ID}}, st \in {{}, {JStr(QUEUED)}}}
  \cup ErrorBodies

JobStatuses ==
  { SUCCEEDED,
    <<"S", "U", "C", "C", "E", "E", "D", "E", "D">>,
    <<"S", "u", "c", "c", "e", "e", "d", "e", "d">>,
    FAILED, CANCELLED, RUNNING_STATUS, QUEUED }

QueryJobBodies ==
  {Compact(ObjOf(<<<<K_status, st>>, <<K_fine_tuned_model, m>>>>)) :
     st \in {{}, {JNull}} \cup {{JStr(x)} : x \in JobStatuses},
     m \in {{}, {JNull}, {FT_MODEL}}}
  \cup ErrorBodies

Responses(bodies) == [status_code : StatusCodes, content : bodies]

\* Extra options of a job request.
KwArgs == {<<>>, <<<<<<"model">>, JStr(<<"babbage-002">>)>>>>}

VARIABLES
  model_name,   \* self._model_name
  dataHandler,  \* self._dataHandler: 0 (None) or an index into tempfiles
  tempfiles,    \* the temporary files created so far: [open, data, owner]
  pc,           \* per caller: "idle", "L101", "L106", "L107", "done"
  frame,        \* per caller: the call in progress, its locals included
  out,          \* per caller: how the call ended
  fs_text,      \* the content of the file at filepath
  conv_pc,      \* "off", "start", "converted", "reconverted"
  conv_out,     \* the outcome of _convert_file_format(filepath)
  reconv_out    \* the outcome of converting the file its output was written to

moduleVars == <<model_name, dataHandler, tempfiles>>
callVars == <<pc, frame, out>>
convVars == <<fs_text, conv_pc, conv_out, reconv_out>>

vars == <<model_name, dataHandler, tempfiles, pc, frame, out,
          fs_text, conv_pc, conv_out, reconv_out>>

NoSent == [purpose |-> "", filename |-> "", data |-> <<>>, content_type |-> ""]

NoFrame ==
  [op |-> "", arg |-> <<>>, req |-> JNull, resp |-> NoResponse,
   acquired |-> 0, file_object |-> 0, sent |-> NoSent, closed |-> 0]

\* The state after __init__ (lines 15-30), no call running.
ModuleInit ==
  /\ model_name \in ModelNames
  /\ dataHandler = 0
  /\ tempfiles = <<>>
  /\ pc = [c \in Callers |-> "idle"]
  /\ frame = [c \in Callers |-> NoFrame]
  /\ out = [c \in Callers |-> NoOutcome]

Init ==
  /\ ModuleInit
  /\ fs_text = <<>>
  /\ conv_pc = "off"
  /\ conv_out = NoOutcome
  /\ reconv_out = NoOutcome

\* ------------------------------------------------------------------------
\* _upload_train_file, one action per stretch between two accesses to the
\* shared self._dataHandler.
\* ------------------------------------------------------------------------

\* FileHandlerBase.get_finetune_data (line 99): converts the training file,
\* writes the result to a new temporary file and makes it self._dataHandler.
GetFinetuneData(c, train_file) ==
  LET converted == Converted[train_file] IN
  /\ pc[c] = "idle"
  /\ Len(tempfiles) < MaxHandles
  /\ IF converted.kind # "return"
     THEN /\ pc' = [pc EXCEPT ![c] = "done"]
          /\ frame' = [frame EXCEPT ![c] = [NoFrame EXCEPT !.op = "upload", !.arg = train_file]]
          /\ out' = [out EXCEPT ![c] = converted]
          /\ UNCHANGED <<dataHandler, tempfiles>>
     ELSE /\ tempfiles' = Append(tempfiles, [open |-> TRUE, data |-> converted.value, owner |-> c])
          /\ dataHandler' = Len(tempfiles) + 1
          /\ pc' = [pc EXCEPT ![c] = "L101"]
          /\ frame' = [frame EXCEPT ![c] = [NoFrame EXCEPT !.op = "upload", !.arg = train_file,
                                                           !.acquired = Len(tempfiles) + 1]]
          /\ UNCHANGED out
  /\ UNCHANGED <<model_name, convVars>>

\* Lines 101-104: file_object takes whatever self._dataHandler is now.
BuildFileObject(c) ==
  /\ pc[c] = "L101"
  /\ frame' = [frame EXCEPT ![c].file_object = dataHandler]
  /\ pc' = [pc EXCEPT ![c] = "L106"]
  /\ UNCHANGED <<moduleVars, out, convVars>>

\* Line 106: requests.post reads the file object and sends it; a closed
\* file cannot be read.  The service answers with r.
Post(c, r) ==
  /\ pc[c] = "L106"
  /\ IF ~tempfiles[frame[c].file_object].open
     THEN /\ out' = [out EXCEPT ![c] = Raise("ValueError", <<>>)]
          /\ pc' = [pc EXCEPT ![c] = "done"]
          /\ UNCHANGED frame
     ELSE /\ frame' = [frame EXCEPT
                 ![c].sent = [purpose |-> "fine-tune",
                              filename |-> Basename(frame[c].arg),
                              data |-> tempfiles[frame[c].file_object].data,
                              content_type |-> "application/json"],
                 ![c].resp = r]
          /\ pc' = [pc EXCEPT ![c] = "L107"]
          /\ UNCHANGED out
  /\ UNCHANGED <<moduleVars, convVars>>

\* Lines 107-112: a status other than 200 raises; otherwise whatever
\* self._dataHandler is now is closed and the id is returned.
HandleUploadResponse(c) ==
  /\ pc[c] = "L107"
  /\ out' = [out EXCEPT ![c] = UploadOutcome(frame[c].resp)]
  /\ pc' = [pc EXCEPT ![c] = "done"]
  /\ IF frame[c].resp.status_code # 200
     THEN UNCHANGED <<tempfiles, frame>>
     ELSE /\ tempfiles' = [tempfiles EXCEPT ![dataHandler].open = FALSE]
          /\ frame' = [frame EXCEPT ![c].closed = dataHandler]
  /\ UNCHANGED <<model_name, dataHandler, convVars>>

\* The call has returned or raised; the caller may call again.
Exit(c) ==
  /\ pc[c] = "done"
  /\ pc' = [pc EXCEPT ![c] = "idle"]
  /\ frame' = [frame EXCEPT ![c] = NoFrame]
  /\ out' = [out EXCEPT ![c] = NoOutcome]
  /\ UNCHANGED <<moduleVars, convVars>>

\* ------------------------------------------------------------------------
\* The calls that touch no attribute of the module but self._model_name.
\* Finish records the call and how it ended.
\* ------------------------------------------------------------------------
Finish(c, op, arg, req, r, outcome) ==
  /\ pc' = [pc EXCEPT ![c] = "done"]
  /\ frame' = [frame EXCEPT ![c] = [NoFrame EXCEPT !.op = op, !.arg = arg,
                                                   !.req = req, !.resp = r]]
  /\ out' = [out EXCEPT ![c] = outcome]
  /\ UNCHANGED <<moduleVars, convVars>>

\* _create_finetuning_job (lines 114-136)
CreateFinetuningJob(c, train_model, train_file_id, kw, r) ==
  /\ pc[c] = "idle"
  /\ Finish(c, "create_job", <<train_model, train_file_id>>,
            JobRequestData(train_model, train_file_id, kw), r, CreateJobOutcome(r))

\* _query_finetuning_job (lines 138-154)
QueryFinetuningJob(c, fine_tuning_job_id, r) ==
  /\ pc[c] = "idle"
  /\ Finish(c, "query_job", <<fine_tuning_job_id>>, JNull, r, QueryJobOutcome(r))

\* _create_deployment (lines 156-160)
CreateDeployment(c) ==
  /\ pc[c] = "idle"
  /\ Finish(c, "create_deployment", <<>>, JNull, NoResponse,
            CreateDeploymentOutcome(model_name))

\* _query_deployment (lines 162-166)
QueryDeployment(c, deployment_id) ==
  /\ pc[c] = "idle"
  /\ Finish(c, "query_deployment", <<deployment_id>>, JNull, NoResponse,
            QueryDeploymentOutcome(deployment_id))

\* One caller, one call at a time.
Next ==
  \/ \E f \in UploadPaths : GetFinetuneData("A", f)
  \/ BuildFileObject("A")
  \/ \E r \in Responses(UploadBodies) : Post("A", r)
  \/ HandleUploadResponse("A")
  \/ \E kw \in KwArgs, r \in Responses(CreateJobBodies) :
       CreateFinetuningJob("A", "gpt-3.5-turbo-0125", "file-123", kw, r)
  \/ \E r \in Responses(QueryJobBodies) : QueryFinetuningJob("A", "job-1", r)
  \/ CreateDeployment("A")
  \/ \E d \in {"job-1", "dep-9"} : QueryDeployment("A", d)
  \/ Exit("A")

Spec == Init /\ [][Next]_vars

\* Two callers upload on the same module, their steps interleaved.
ConcurrentBodies == {Compact(ObjOf(<<<<K_id, {FILE_ID}>>>>)), <<"bad", SP, "request">>}

ConcurrentNext ==
  \E c \in Callers :
    \/ \E f \in UploadPaths : GetFinetuneData(c, f)
    \/ BuildFileObject(c)
    \/ \E r \in [status_code : {200, 500}, content : ConcurrentBodies] : Post(c, r)
    \/ HandleUploadResponse(c)
    \/ Exit(c)

SpecConcurrent == Init /\ [][ConcurrentNext]_vars

\* ------------------------------------------------------------------------
\* _convert_file_format applied to the files of TrainFiles.
\* ------------------------------------------------------------------------
ConvInit ==
  /\ ModuleInit
  /\ fs_text \in TrainFiles
  /\ conv_pc = "start"
  /\ conv_out = NoOutcome
  /\ reconv_out = NoOutcome

ConvertCall ==
  /\ conv_pc = "start"
  /\ conv_out' = ConvertFileFormat(fs_text)
  /\ conv_pc' = "converted"
  /\ UNCHANGED <<fs_text, reconv_out, moduleVars, callVars>>

\* The returned text is written to a file and converted again.
ReconvertCall ==
  /\ conv_pc = "converted"
  /\ conv_out.kind = "return"
  /\ reconv_out' = ConvertFileFormat(conv_out.value)
  /\ conv_pc' = "reconverted"
  /\ UNCHANGED <<fs_text, conv_out, moduleVars, callVars>>

ConvNext == ConvertCall \/ ReconvertCall

SpecConvert == ConvInit /\ [][ConvNext]_vars

\* ------------------------------------------------------------------------
\* Properties of _convert_file_format
\* ------------------------------------------------------------------------
ClaimRoles == {<<"system">>, <<"user">>, <<"assistant">>}

ParsedLines(text) ==
  LET ls == ReadLines(text) IN [i \in 1..Len(ls) |-> Loads(ls[i])]

ObjectsOnly(pl) == \A i \in 1..Len(pl) : pl[i].ok /\ pl[i].val.t = "obj"

AllParseAsObjects(text) == ObjectsOnly(ParsedLines(text))

\* The messages of a record: the value under "messages", none when absent.
MessagesOf(ex) == DictGet(ex.v, K_messages, JArr(<<>>))

ListsOfObjects(pl) ==
  /\ ObjectsOnly(pl)
  /\ \A i \in 1..Len(pl) :
       LET ms == MessagesOf(pl[i].val) IN
       ms.t = "arr" /\ \A j \in 1..Len(ms.v) : ms.v[j].t = "obj"

\* Every line is an object whose "messages", when present, is a list of
\* objects.
Conversational(text) == ListsOfObjects(ParsedLines(text))

HasRecognizedRole(m) ==
  DictHas(m.v, K_role) /\ DictGet(m.v, K_role, JNull).t = "str"
  /\ DictGet(m.v, K_role, JNull).v \in ClaimRoles

\* A message reduced to its role and content.
RoleContent(m) ==
  JObj(<<<<K_role, DictGet(m.v, K_role, JNull)>>,
         <<K_content, IF DictHas(m.v, K_content)
                      THEN DictGet(m.v, K_content, JNull) ELSE JStr(<<>>)>>>>)

ExpectedRecord(ex) ==
  LET kept == SelectSeq(MessagesOf(ex).v, HasRecognizedRole) IN
  Rec([j \in 1..Len(kept) |-> RoleContent(kept[j])])

\* The output has one line per input line, and line i is the record of the
\* recognized messages of input line i, in their order.
OutputIsFiltered(text, res) ==
  LET pin == ParsedLines(text)
      pout == ParsedLines(res.value)
  IN
  /\ res.kind = "return"
  /\ Len(pout) = Len(pin)
  /\ \A i \in 1..Len(pin) :
       pout[i].ok /\ pout[i].val = ExpectedRecord(pin[i].val)

\* C6 (as stated): for every file whose lines all parse as JSON objects,
\* convert returns one record per input record, in order, each holding
\* exactly the input record's messages with a recognized role.
C6_AsStated ==
  (conv_pc \in {"converted", "reconverted"} /\ AllParseAsObjects(fs_text))
    => OutputIsFiltered(fs_text, conv_out)

\* C6 (amended): the same for every file whose lines all parse as JSON
\* objects in which "messages", when present, is a list of JSON objects.
C6_ConvertKeepsRecognized ==
  (conv_pc \in {"converted", "reconverted"} /\ Conversational(fs_text))
    => OutputIsFiltered(fs_text, conv_out)

\* A converted two-line file one of whose records holds a "tool" message
\* next to recognized ones, and another whose record has no "messages" key.
C6_Witness ==
  LET pin == ParsedLines(fs_text) IN
  /\ conv_pc = "converted"
  /\ ListsOfObjects(pin)
  /\ conv_out.kind = "return"
  /\ Len(pin) = 2
  /\ \E i \in 1..2 :
       LET ms == MessagesOf(pin[i].val).v IN
       /\ \E j \in 1..Len(ms) : DictGet(ms[j].v, K_role, JNull) = JStr(<<"tool">>)
       /\ \E j \in 1..Len(ms) : HasRecognizedRole(ms[j])
  /\ \E i \in 1..2 : ~DictHas(pin[i].val.v, K_messages)

\* The first line of the file that is not JSON (0 when every line parses).
FirstBadLine(text) ==
  LET pl == ParsedLines(text) IN
  IF \A i \in 1..Len(pl) : pl[i].ok THEN 0
  ELSE CHOOSE i \in 1..Len(pl) : ~pl[i].ok /\ \A j \in 1..(i - 1) : pl[j].ok

\* C7: when a line of the file is malformed JSON the conversion fails as a
\* whole, returning nothing, and the error names the line number of the
\* offending line within the file.
C7_ErrorNamesFileLine ==
  (conv_pc \in {"converted", "reconverted"} /\ FirstBadLine(fs_text) # 0)
    => /\ conv_out.kind = "JSONDecodeError"
       /\ conv_out.lineno = FirstBadLine(fs_text)

\* The part of C7 the code does: a malformed line fails the whole
\* conversion and nothing is returned.
C7_FailsWhole ==
  (conv_pc \in {"converted", "reconverted"} /\ FirstBadLine(fs_text) # 0)
    => conv_out.kind = "JSONDecodeError" /\ conv_out.value = <<>>

\* Every line is a record of messages made of exactly a role and a content,
\* the role recognized and both strings.
WellFormed(text) ==
  LET pl == ParsedLines(text) IN
  /\ ListsOfObjects(pl)
  /\ \A i \in 1..Len(pl) :
       LET ex == pl[i].val IN
       /\ Len(ex.v) = 1 /\ DictHas(ex.v, K_messages)
       /\ \A j \in 1..Len(MessagesOf(ex).v) :
            LET m == MessagesOf(ex).v[j] IN
            /\ Len(m.v) = 2 /\ HasRecognizedRole(m)
            /\ DictHas(m.v, K_content) /\ DictGet(m.v, K_content, JNull).t = "str"

\* The dataset a text holds: per record the <<role, content>> of each
\* message, whatever the order of the keys and the spacing of the text.
DatasetOf(text) ==
  LET pl == ParsedLines(text) IN
  [i \in 1..Len(pl) |->
     LET ms == MessagesOf(pl[i].val).v IN
     [j \in 1..Len(ms) |->
        <<DictGet(ms[j].v, K_role, JNull), DictGet(ms[j].v, K_content, JNull)>>]]

\* C10: converting well-formed input (messages of a role and a content,
\* roles recognized) reproduces an equivalent dataset, and converting the
\* output of convert again yields the same output.
C10_ConvertIdempotent ==
  /\ (conv_pc \in {"converted", "reconverted"} /\ WellFormed(fs_text))
       => /\ conv_out.kind = "return"
          /\ WellFormed(conv_out.value)
          /\ DatasetOf(conv_out.value) = DatasetOf(fs_text)
  /\ (conv_pc = "reconverted" /\ WellFormed(fs_text)) => reconv_out = conv_out

\* A well-formed file with a content that needs escaping, converted twice.
C10_Witness ==
  LET ds == DatasetOf(fs_text) IN
  /\ conv_pc = "reconverted"
  /\ WellFormed(fs_text)
  /\ \E i \in 1..Len(ds) : \E j \in 1..Len(ds[i]) : \E k \in 1..Len(ds[i][j][2].v) :
       ds[i][j][2].v[k] \in {DQ, BS, NL}
  /\ \E i \in 1..Len(ds) : Len(ds[i]) = 2

\* ------------------------------------------------------------------------
\* Properties of the calls
\* ------------------------------------------------------------------------
Done(c, op) == pc[c] = "done" /\ frame[c].op = op

HttpOps == {"upload", "create_job", "query_job"}

\* The call of c got a response.
Answered(c) == pc[c] = "done" /\ frame[c].op \in HttpOps /\ frame[c].resp # NoResponse

\* The body of the response as JSON: an object, and what it holds.
BodyIsObject(r) == Loads(r.content).ok /\ Loads(r.content).val.t = "obj"
BodyHas(r, k) == BodyIsObject(r) /\ DictHas(Loads(r.content).val.v, k)
BodyField(r, k) == DictGet(Loads(r.content).val.v, k, JNull)

\* Two characters that are the same letter, whatever their case.
SameLetter(x, y) ==
  x = y \/ \E i \in 1..Len(UPPER) : {x, y} = {UPPER[i], LOWER[i]}

CaseInsensitiveEq(a, b) ==
  Len(a) = Len(b) /\ \A i \in 1..Len(a) : SameLetter(a[i], b[i])

\* C1: when a call of upload exits, the temporary file that held its
\* converted dataset has been released, whether the response was a success
\* or a failure.
C1_HandleReleasedOnExit ==
  \A c \in Callers :
    (Done(c, "upload") /\ frame[c].acquired # 0)
      => ~tempfiles[frame[c].acquired].open

\* C2: for a response with status >= 300 from any of the three endpoints
\* the operation fails, returns nothing, and the error carries the whole
\* response body.
C2_FailureCarriesBody ==
  \A c \in Callers :
    (Answered(c) /\ frame[c].resp.status_code >= 300)
      => /\ out[c].kind = "RequestException"
         /\ out[c].value = Utf8Decode(frame[c].resp.content, <<>>).val

\* The part of C2 that holds whatever the body: the operation fails and
\* returns nothing.
C2_FailureReturnsNothing ==
  \A c \in Callers :
    (Answered(c) /\ frame[c].resp.status_code >= 300)
      => out[c].kind \in {"RequestException", "UnicodeDecodeError"}

\* The responses C3 is about: status 200 and a body with a string status.
QueryAnswered(c) ==
  /\ Done(c, "query_job")
  /\ frame[c].resp.status_code = 200
  /\ BodyHas(frame[c].resp, K_status)
  /\ BodyField(frame[c].resp, K_status).t = "str"

\* C3 (as stated): queryJob returns a model identifier that is present if
\* and only if the status equals "succeeded" whatever the case.
C3_AsStated ==
  \A c \in Callers :
    QueryAnswered(c)
      => /\ out[c].kind = "return"
         /\ (out[c].value[1] # JNull
               <=> CaseInsensitiveEq(BodyField(frame[c].resp, K_status).v, SUCCEEDED))

\* C3 (amended): when the status equals "succeeded" whatever the case,
\* queryJob returns the response's fine_tuned_model as it is (None when it
\* is null) and fails with KeyError when the field is missing; for every
\* other status it returns no model identifier, whatever the field holds.
C3_ModelOnlyWhenSucceeded ==
  \A c \in Callers :
    QueryAnswered(c)
      => LET r == frame[c].resp
             status == BodyField(r, K_status)
         IN
         IF CaseInsensitiveEq(status.v, SUCCEEDED)
         THEN IF BodyHas(r, K_fine_tuned_model)
              THEN out[c] = Return(<<BodyField(r, K_fine_tuned_model), status>>)
              ELSE out[c].kind = "KeyError"
         ELSE out[c] = Return(<<JNull, status>>)

\* A query answered "SUCCEEDED" in capitals returned the model, and one
\* answered "failed" with a model in the body returned none.
C3_Witness ==
  \E c \in Callers :
    /\ QueryAnswered(c)
    /\ BodyField(frame[c].resp, K_status).v # SUCCEEDED
    /\ CaseInsensitiveEq(BodyField(frame[c].resp, K_status).v, SUCCEEDED)
    /\ out[c].kind = "return"
    /\ out[c].value[1] = FT_MODEL

\* The body carries the fields the operation reads, each a string.
ExpectedFields(c) ==
  LET r == frame[c].resp IN
  LET Text(k) == BodyHas(r, k) /\ BodyField(r, k).t = "str" IN
  IF frame[c].op = "upload" THEN Text(K_id)
  ELSE IF frame[c].op = "create_job" THEN Text(K_id) /\ Text(K_status)
  ELSE Text(K_status) /\ Text(K_fine_tuned_model)

\* C4: for every response in the 200 class (200 to 299) whose body carries
\* the expected fields the operation returns its result; upload returns the
\* body's id.
C4_Any2xxSucceeds ==
  \A c \in Callers :
    (Answered(c) /\ frame[c].resp.status_code >= 200
       /\ frame[c].resp.status_code <= 299 /\ ExpectedFields(c))
      => /\ out[c].kind = "return"
         /\ frame[c].op = "upload" => out[c].value = BodyField(frame[c].resp, K_id)

C8_CallsKeepToOwnHandle ==
  \A c \in Callers :
    /\ frame[c].file_object # 0 => frame[c].file_object = frame[c].acquired
    /\ frame[c].closed # 0 => frame[c].closed = frame[c].acquired
    /\ pc[c] \in {"L101", "L106", "L107"} => dataHandler = frame[c].acquired

DeploymentOps == {"create_deployment", "query_deployment"}

\* C9: createDeployment can always be called and returns the module's
\* model name with the state RUNNING, queryDeployment returns RUNNING for
\* every identifier, whatever calls came before, and neither changes the
\* state of the module.
C9_DeploymentAlwaysRunning ==
  /\ [](\A c \in Callers :
          /\ Done(c, "create_deployment") => out[c] = Return(<<model_name, "RUNNING">>)
          /\ Done(c, "query_deployment") => out[c] = Return("RUNNING"))
  /\ [](pc["A"] = "idle" => ENABLED CreateDeployment("A"))
  /\ [][\A c \in Callers :
          (pc[c] = "idle" /\ pc'[c] = "done" /\ frame'[c].op \in DeploymentOps)
            => UNCHANGED moduleVars]_vars
  /\ [][model_name' = model_name]_vars

\* A deployment created after an upload that failed and left its file open.
C9_Witness ==
  /\ Done("A", "create_deployment")
  /\ out["A"].kind = "return"
  /\ \E h \in 1..Len(tempfiles) : tempfiles[h].open

====
